---- MODULE Spec2Model ----
(***************************************************************************)
(* Model of src/main.py: the two Beautiful Soup examples, the two Scrapy   *)
(* spiders (QuotesSpider, AdvancedSpider) and the two crawls that          *)
(* scrapy_example starts.                                                   *)
(*                                                                         *)
(* main.py holds no frontier and no visited set of its own.  The spiders   *)
(* yield items and requests; the requests are built by response.follow     *)
(* with its default arguments (no dont_filter, no errback, no priority)    *)
(* and are handed to the engine that process.crawl/process.start run.      *)
(* The engine is modelled by what it does with exactly these calls:        *)
(*   - the requests made from start_urls are scheduled without passing     *)
(*     the duplicate filter (they carry dont_filter=True), so the start    *)
(*     URL is not recorded as seen;                                        *)
(*   - a request made by response.follow is dropped when its URL has been  *)
(*     seen, else its URL is recorded and it is scheduled;                 *)
(*   - up to CONCURRENT_REQUESTS requests are downloaded at once and the   *)
(*     responses arrive in any order; the order in which pending requests  *)
(*     leave the scheduler is left open (any pending request may go next); *)
(*   - a failed download (network error, non-2xx status) of a request      *)
(*     without errback is logged and its callback is not called;           *)
(*   - an exception raised by a callback is logged and the crawl goes on.  *)
(* The web site is an input: it is revealed page by page as the crawl      *)
(* reads it and answers the same on every later read of the same run.      *)
(* A download stands for the whole retrieval of a URL (the framework's     *)
(* retries and redirects included); download delays are not modelled.      *)
(* Each of the two crawls of scrapy_example is modelled as started: whether *)
(* the framework's event loop can be started a second time in one process  *)
(* is left out, so that the AdvancedSpider crawl can be examined.          *)
(* An item is identified by the page and the quote it was extracted from   *)
(* (index 0: the author item of the page).                                 *)
(***************************************************************************)
EXTENDS Integers, Sequences, FiniteSets, TLC

\* ---------------------------------------------------------------- bounds
NLoc == 3          \* locations (URLs) of the site: 1..NLoc
MaxQuotes == 2     \* div.quote elements on one page

\* -------------------------------------------------------------- constants
CONCURRENT_REQUESTS == 16
start_urls == <<1>>

Loc == 1..NLoc
NoLink == 0
Link == {NoLink} \cup Loc

VARIABLES
    pc,           \* position in main / scrapy_example
    response,     \* beautiful_soup_example: the response of the current example
    stdout,       \* what the current function printed, in order
    quotes_json,  \* quotes.json as written by Example 2: <<>> absent, <<data>> written
    status,       \* site: status[l] of the download of l ("unknown" until read)
    page,         \* site: what parse reads on l: <<>> until read, <<[quotes, next]>>
    desc,         \* site: div.author-description of l ("unknown" until read)
    scheduler,    \* engine: pending requests
    seen,         \* engine: URLs recorded by the duplicate filter
    inflight,     \* engine: requests being downloaded
    feed,         \* engine: items exported so far (FEED_URI), in order
    log,          \* engine: failures logged, [url, what]
    fetches,      \* history: number of downloads started per location
    visited,      \* history: the requests whose callback ran, in order
    run,          \* re-run harness: 0 (main), 1 or 2
    feed1         \* re-run harness: the feed of run 1

vars == <<pc, response, stdout, quotes_json, status, page, desc, scheduler, seen,
          inflight, feed, log, fetches, visited, run, feed1>>

bsVars == <<response, stdout, quotes_json>>
siteVars == <<status, page, desc>>
engineVars == <<scheduler, seen, inflight, feed, log, fetches, visited>>
rerunVars == <<run, feed1>>

\* ------------------------------------------------------------ inputs
RECURSIVE SeqsUpTo(_, _)
SeqsUpTo(S, n) ==
    IF n = 0 THEN {<<>>}
    ELSE LET shorter == SeqsUpTo(S, n - 1)
         IN  shorter \cup {Append(s, x) : s \in {t \in shorter : Len(t) = n - 1}, x \in S}

\* A page as parse reads it: per div.quote the author link (NoLink: none), and
\* the li.next link (NoLink: none).
Pages == [quotes : SeqsUpTo(Link, MaxQuotes), next : Link]

\* A page as QuotesSpider.parse reads it: the author links are not read.
PagesNoAuthor == {p \in Pages : \A i \in 1..Len(p.quotes) : p.quotes[i] = NoLink}

\* The body Example 2 parses: per div.quote, whether span.text, small.author
\* are all there (TRUE) or one is missing (FALSE: find returns None).
Bodies == SeqsUpTo(BOOLEAN, MaxQuotes)

\* ------------------------------------------------------------ spiders
ItemOut(l, i) == [kind |-> "item", url |-> l, idx |-> i, callback |-> "-"]
ReqOut(u, cb) == [kind |-> "request", url |-> u, idx |-> 0, callback |-> cb]
Request(u, cb) == [url |-> u, callback |-> cb]
Item(l, i) == [url |-> l, idx |-> i]

\* response.follow(next_page, self.parse) when li.next is there
FollowNext(p) ==
    IF p.next # NoLink THEN <<ReqOut(p.next, "parse")>> ELSE <<>>

\* (mutant) the quotes are yielded last to first
QuotesSpider_parse_reversed(l, p) ==
    [i \in 1..Len(p.quotes) |-> ItemOut(l, Len(p.quotes) + 1 - i)] \o FollowNext(p)

\* QuotesSpider.parse: one item per quote, then the pagination request
QuotesSpider_parse(l, p) ==
    [i \in 1..Len(p.quotes) |-> ItemOut(l, i)] \o FollowNext(p)

\* (mutant) quote_data is yielded a second time inside "if author_url:"
QuoteOutputs_twice(l, p, i) ==
    <<ItemOut(l, i)>>
    \o (IF p.quotes[i] # NoLink
        THEN <<ReqOut(p.quotes[i], "parse_author"), ItemOut(l, i)>> ELSE <<>>)

\* AdvancedSpider.parse, the loop body: the quote's item, then its author request
QuoteOutputs(l, p, i) ==
    <<ItemOut(l, i)>>
    \o (IF p.quotes[i] # NoLink THEN <<ReqOut(p.quotes[i], "parse_author")>> ELSE <<>>)

RECURSIVE QuotesFrom(_, _, _)
QuotesFrom(l, p, i) ==
    IF i > Len(p.quotes) THEN <<>>
    ELSE QuoteOutputs(l, p, i) \o QuotesFrom(l, p, i + 1)

\* (mutant) the pagination request is yielded before the quotes
AdvancedSpider_parse_next_first(l, p) == FollowNext(p) \o QuotesFrom(l, p, 1)

\* AdvancedSpider.parse: the loop over the quotes, then the pagination request
AdvancedSpider_parse(l, p) == QuotesFrom(l, p, 1) \o FollowNext(p)

\* AdvancedSpider.parse_author: .get() gives None when the description is
\* missing and .strip() raises before anything is yielded
parse_author(l, d) ==
    IF d = "ok" THEN [raised |-> FALSE, out |-> <<ItemOut(l, 0)>>]
    ELSE [raised |-> TRUE, out |-> <<>>]

\* ------------------------------------------------------------ engine
\* The scheduler's enqueue of a request made by response.follow
Enqueue(r, st) ==
    IF r.url \in st.seen THEN st
    ELSE [st EXCEPT !.seen = @ \cup {r.url},
                    !.scheduler = Append(@, Request(r.url, r.callback))]

\* The engine takes the outputs of a callback in the order they are yielded
RECURSIVE Consume(_, _)
Consume(outs, st) ==
    IF outs = <<>> THEN st
    ELSE LET o == Head(outs)
         IN  Consume(Tail(outs),
                     IF o.kind = "item"
                     THEN [st EXCEPT !.feed = Append(@, Item(o.url, o.idx))]
                     ELSE Enqueue(o, st))

\* The requests of start_urls: scheduled with dont_filter=True
StartRequests == [i \in 1..Len(start_urls) |-> Request(start_urls[i], "parse")]

Spider == IF pc = "run_quotes" THEN "quotes" ELSE "advanced"
Running == pc \in {"run_quotes", "run_advanced"} /\ run # 3
Idle == scheduler = <<>> /\ inflight = {}

RemoveAt(s, i) == SubSeq(s, 1, i - 1) \o SubSeq(s, i + 1, Len(s))

\* ------------------------------------------------------------ Init
Init ==
    /\ pc = "bs1"
    /\ response = [fetch |-> "none", body |-> <<>>]
    /\ stdout = <<>>
    /\ quotes_json = <<>>
    /\ status = [l \in Loc |-> "unknown"]
    /\ page = [l \in Loc |-> <<>>]
    /\ desc = [l \in Loc |-> "unknown"]
    /\ scheduler = <<>>
    /\ seen = {}
    /\ inflight = {}
    /\ feed = <<>>
    /\ log = {}
    /\ fetches = [l \in Loc |-> 0]
    /\ visited = <<>>
    /\ run = 0
    /\ feed1 = <<>>

\* ------------------------------------------------------------ Beautiful Soup
FetchOutcomes == {"ok", "neterr", "badstatus"}

\* Example 1: requests.get, raise_for_status, print links and headings;
\* a RequestException is caught and printed
Example1 ==
    /\ pc = "bs1"
    /\ \E f \in FetchOutcomes :
        /\ response' = [fetch |-> f, body |-> <<>>]
        /\ stdout' = IF f = "ok" THEN <<"links", "headings">>
                     ELSE <<"Error fetching the page">>
    /\ pc' = "bs2"
    /\ UNCHANGED <<quotes_json, siteVars, engineVars, rerunVars>>

\* The loop of Example 2 over the quotes of the parsed body: the data built
\* before the first quote with a missing element, where .text raises
RECURSIVE QuotesData(_, _)
QuotesData(body, i) ==
    IF i > Len(body) THEN [raised |-> FALSE, data |-> [k \in 1..Len(body) |-> k]]
    ELSE IF ~body[i] THEN [raised |-> TRUE, data |-> [k \in 1..(i - 1) |-> k]]
    ELSE QuotesData(body, i + 1)

\* Example 2: requests.get without raise_for_status, the loop over the
\* quotes, then json.dump; any Exception is caught and printed
Example2 ==
    /\ pc = "bs2"
    /\ \E f \in FetchOutcomes, b \in Bodies :
        /\ f = "neterr" => b = <<>>
        /\ response' = [fetch |-> f, body |-> b]
        /\ LET q == QuotesData(b, 1)
           IN  IF f = "neterr" \/ q.raised
               THEN /\ stdout' = <<"Error in advanced example">>
                    /\ quotes_json' = quotes_json
               ELSE /\ stdout' = <<"Quotes data saved to quotes.json">>
                    /\ quotes_json' = <<q.data>>
    /\ pc' = "crawl_quotes"
    /\ UNCHANGED <<siteVars, engineVars, rerunVars>>

\* ------------------------------------------------------------ Scrapy
\* (mutant) the duplicate filter of an earlier crawl is kept (as with a job
\* directory shared by the crawls) instead of starting empty
StartCrawl_keeps_seen ==
    /\ pc \in {"crawl_quotes", "crawl_advanced"}
    /\ pc' = IF pc = "crawl_quotes" THEN "run_quotes" ELSE "run_advanced"
    /\ scheduler' = [i \in 1..Len(start_urls) |-> [url |-> start_urls[i], callback |-> "parse"]]
    /\ inflight' = {}
    /\ feed' = <<>>
    /\ log' = {}
    /\ fetches' = [l \in Loc |-> 0]
    /\ visited' = <<>>
    /\ response' = [fetch |-> "none", body |-> <<>>]
    /\ stdout' = <<>>
    /\ quotes_json' = <<>>
    /\ status' = IF run = 2 THEN status ELSE [l \in Loc |-> "unknown"]
    /\ page' = IF run = 2 THEN page ELSE [l \in Loc |-> <<>>]
    /\ desc' = IF run = 2 THEN desc ELSE [l \in Loc |-> "unknown"]
    /\ UNCHANGED <<seen, run, feed1>>

\* process = CrawlerProcess(...); process.crawl(Spider); process.start():
\* a new engine with an empty duplicate filter and a new feed, and the start
\* requests in its scheduler.  beautiful_soup_example has returned: its
\* locals are gone, and quotes.json (FEED_URI of the first crawl) now belongs
\* to the feed exporter, whose items the model keeps in feed.  The crawl
\* reads the site anew (in the re-run harness, run 2 reads the site of run 1).
StartCrawl ==
    /\ pc \in {"crawl_quotes", "crawl_advanced"}
    /\ pc' = IF pc = "crawl_quotes" THEN "run_quotes" ELSE "run_advanced"
    /\ scheduler' = StartRequests
    /\ seen' = {}
    /\ inflight' = {}
    /\ feed' = <<>>
    /\ log' = {}
    /\ fetches' = [l \in Loc |-> 0]
    /\ visited' = <<>>
    /\ response' = [fetch |-> "none", body |-> <<>>]
    /\ stdout' = <<>>
    /\ quotes_json' = <<>>
    /\ status' = IF run = 2 THEN status ELSE [l \in Loc |-> "unknown"]
    /\ page' = IF run = 2 THEN page ELSE [l \in Loc |-> <<>>]
    /\ desc' = IF run = 2 THEN desc ELSE [l \in Loc |-> "unknown"]
    /\ UNCHANGED rerunVars

\* The engine starts the download of a pending request
Download ==
    /\ Running
    /\ Cardinality(inflight) < CONCURRENT_REQUESTS
    /\ \E i \in 1..Len(scheduler) :
        /\ inflight' = inflight \cup {scheduler[i]}
        /\ fetches' = [fetches EXCEPT ![scheduler[i].url] = @ + 1]
        /\ scheduler' = RemoveAt(scheduler, i)
    /\ UNCHANGED <<pc, bsVars, siteVars, seen, feed, log, visited, rerunVars>>

\* What the site answers for l: as before when l has been read in this run
StatusOf(l) == IF status[l] = "unknown" THEN {"ok", "fail"} ELSE {status[l]}
PageOf(l, all) == IF page[l] = <<>> THEN all ELSE {page[l][1]}
DescOf(l) == IF desc[l] = "unknown" THEN {"ok", "missing"} ELSE {desc[l]}

\* A download fails: no errback on the request, the engine logs the failure
DownloadFails ==
    /\ Running
    /\ \E r \in inflight :
        /\ "fail" \in StatusOf(r.url)
        /\ status' = [status EXCEPT ![r.url] = "fail"]
        /\ inflight' = inflight \ {r}
        /\ log' = log \cup {[url |-> r.url, what |-> "download failed"]}
    /\ UNCHANGED <<pc, bsVars, page, desc, scheduler, seen, feed, fetches, visited,
                   rerunVars>>

\* The engine state after the outputs of a callback
AfterCallback(outs) ==
    Consume(outs, [feed |-> feed, scheduler |-> scheduler, seen |-> seen])

\* A response reaches self.parse of the running spider
Parse ==
    /\ Running
    /\ \E r \in inflight :
        /\ r.callback = "parse"
        /\ "ok" \in StatusOf(r.url)
        /\ \E p \in PageOf(r.url, IF Spider = "quotes" THEN PagesNoAuthor ELSE Pages) :
            LET outs == IF Spider = "quotes" THEN QuotesSpider_parse(r.url, p)
                        ELSE AdvancedSpider_parse(r.url, p)
                st == AfterCallback(outs)
            IN  /\ status' = [status EXCEPT ![r.url] = "ok"]
                /\ page' = [page EXCEPT ![r.url] = <<p>>]
                /\ feed' = st.feed
                /\ scheduler' = st.scheduler
                /\ seen' = st.seen
        /\ inflight' = inflight \ {r}
        /\ visited' = Append(visited, r)
    /\ UNCHANGED <<pc, bsVars, desc, log, fetches, rerunVars>>

\* A response reaches self.parse_author
ParseAuthor ==
    /\ Running
    /\ \E r \in inflight :
        /\ r.callback = "parse_author"
        /\ "ok" \in StatusOf(r.url)
        /\ \E d \in DescOf(r.url) :
            LET res == parse_author(r.url, d)
                st == AfterCallback(res.out)
            IN  /\ status' = [status EXCEPT ![r.url] = "ok"]
                /\ desc' = [desc EXCEPT ![r.url] = d]
                /\ feed' = st.feed
                /\ scheduler' = st.scheduler
                /\ seen' = st.seen
                /\ log' = IF res.raised
                          THEN log \cup {[url |-> r.url, what |-> "callback raised"]}
                          ELSE log
        /\ inflight' = inflight \ {r}
        /\ visited' = Append(visited, r)
    /\ UNCHANGED <<pc, bsVars, page, fetches, rerunVars>>

\* Nothing pending, nothing in flight: the spider closes and process.start()
\* returns; scrapy_example goes on to the next crawl, or main ends
CloseSpider ==
    /\ Running
    /\ run = 0
    /\ Idle
    /\ pc' = IF pc = "run_quotes" THEN "crawl_advanced" ELSE "done"
    /\ UNCHANGED <<bsVars, siteVars, engineVars, rerunVars>>

Next ==
    \/ Example1
    \/ Example2
    \/ StartCrawl
    \/ Download
    \/ DownloadFails
    \/ Parse
    \/ ParseAuthor
    \/ CloseSpider

Spec == Init /\ [][Next]_vars

\* ------------------------------------------------------------ running a crawl twice
\* The same crawl (either spider) is run twice over the same site: the site
\* revealed in run 1 answers the same in run 2, the engine is new.
InitRerun ==
    /\ pc \in {"crawl_quotes", "crawl_advanced"}
    /\ response = [fetch |-> "none", body |-> <<>>]
    /\ stdout = <<>>
    /\ quotes_json = <<>>
    /\ status = [l \in Loc |-> "unknown"]
    /\ page = [l \in Loc |-> <<>>]
    /\ desc = [l \in Loc |-> "unknown"]
    /\ scheduler = <<>>
    /\ seen = {}
    /\ inflight = {}
    /\ feed = <<>>
    /\ log = {}
    /\ fetches = [l \in Loc |-> 0]
    /\ visited = <<>>
    /\ run = 1
    /\ feed1 = <<>>

\* Run 1 is over: its feed is kept and the same crawl is started again
Rerun ==
    /\ Running
    /\ run = 1
    /\ Idle
    /\ feed1' = feed
    /\ run' = 2
    /\ pc' = IF pc = "run_quotes" THEN "crawl_quotes" ELSE "crawl_advanced"
    /\ UNCHANGED <<bsVars, siteVars, engineVars>>

\* Run 2 is over
Finish ==
    /\ Running
    /\ run = 2
    /\ Idle
    /\ run' = 3
    /\ UNCHANGED <<pc, bsVars, siteVars, engineVars, feed1>>

NextRerun ==
    \/ StartCrawl
    \/ Download
    \/ DownloadFails
    \/ Parse
    \/ ParseAuthor
    \/ Rerun
    \/ Finish

SpecRerun == InitRerun /\ [][NextRerun]_vars

\* ============================================================ properties
Count(s, x) == Cardinality({k \in DOMAIN s : s[k] = x})
Pending(l) == Cardinality({k \in DOMAIN scheduler : scheduler[k].url = l})
InFlight(l) == \E r \in inflight : r.url = l
IsQueued(l) == Pending(l) > 0 \/ InFlight(l)
IsVisited(l) == \E k \in DOMAIN visited : visited[k].url = l
ItemsFrom(s, l) == SelectSeq(s, LAMBDA it : it.url = l)
ItemsOf(l) == [i \in 1..Len(page[l][1].quotes) |-> Item(l, i)]

RECURSIVE ItemsInOrder(_)
ItemsInOrder(v) ==
    IF v = <<>> THEN <<>> ELSE ItemsOf(Head(v).url) \o ItemsInOrder(Tail(v))

\* C1 (as claimed): in any crawl no location is downloaded more than once,
\* however many pages link to it.
C1_FetchedAtMostOnce == \A l \in Loc : fetches[l] <= 1

\* C2 (as claimed): when the crawl of a site whose start page 1 links to page 2
\* and page 2 links back to page 1 is over, every item of page 1 and every
\* item of page 2 is in the feed exactly once.
C2_CycleItemsOnce ==
    (/\ Running /\ Idle
     /\ page[1] # <<>> /\ page[2] # <<>>
     /\ page[1][1].next = 2 /\ page[2][1].next = 1)
    => \A l \in {1, 2} : \A i \in 1..Len(page[l][1].quotes) :
           Count(feed, Item(l, i)) = 1

\* C3 (as claimed): a fetch that fails (network error or non-success status) is
\* reported, yields no item, and the run goes on: after Example 1 and after
\* Example 2 a failed fetch has printed its diagnostic and saved nothing; in a
\* crawl a failed location is logged and has no item in the feed, and with
\* page 1 = ([item1], next 2) and the fetch of 2 failing the feed is [item1].
C3_FetchFailureReported ==
    /\ (pc = "bs2" /\ response.fetch \in {"neterr", "badstatus"})
       => stdout = <<"Error fetching the page">>
    /\ (pc = "crawl_quotes" /\ response.fetch \in {"neterr", "badstatus"})
       => (stdout = <<"Error in advanced example">> /\ quotes_json = <<>>)
    /\ \A l \in Loc : status[l] = "fail" =>
          /\ fetches[l] > 0 => [url |-> l, what |-> "download failed"] \in log
          /\ ItemsFrom(feed, l) = <<>>
    /\ (/\ Running /\ Idle
        /\ page[1] = <<[quotes |-> <<NoLink>>, next |-> 2]>>
        /\ status[2] = "fail")
       => feed = <<Item(1, 1)>>

C6_Monotonic ==
    [][(Running /\ Running') =>
         \A l \in Loc :
            /\ IsVisited(l) => IsVisited(l)'
            /\ IsQueued(l) => (IsQueued(l)' \/ IsVisited(l)' \/ status'[l] = "fail")
            /\ (IsVisited(l) \/ IsQueued(l)) => Pending(l)' <= Pending(l)]_vars

\* The items of one page are next to each other in the feed, in extraction order
ItemsTogether ==
    \A k \in DOMAIN feed :
        feed[k].idx > 1 => (k > 1 /\ feed[k - 1] = Item(feed[k].url, feed[k].idx - 1))

\* C7 (as claimed): in the AdvancedSpider crawl (CONCURRENT_REQUESTS = 16) a
\* download of a location starts only if that location has never been
\* downloaded and is not being downloaded, and the items of one page are
\* emitted together in extraction order.
C7_NoDoubleFetch ==
    /\ [][pc = "run_advanced" =>
            \A l \in Loc : fetches'[l] > fetches[l] => (fetches[l] = 0 /\ ~InFlight(l))]_vars
    /\ [](pc = "run_advanced" => ItemsTogether)

\* C8 (as claimed): when Example 2 fails (the fetch raises, or a quote of the
\* body lacks an element) the diagnostic is printed and the quotes extracted
\* before the failure are saved to quotes.json; when parse_author raises the
\* failure is logged.
C8_PartialResultsSaved ==
    /\ (pc = "crawl_quotes" /\ run = 0) =>
          LET q == QuotesData(response.body, 1)
          IN  (response.fetch = "neterr" \/ q.raised) =>
                 /\ stdout = <<"Error in advanced example">>
                 /\ q.data # <<>> => quotes_json = <<q.data>>
    /\ \A l \in Loc :
          (desc[l] = "missing" /\ Count(visited, Request(l, "parse_author")) > 0)
          => [url |-> l, what |-> "callback raised"] \in log

\* C9 (as claimed): two runs of the same crawl over the same site give the
\* same sequence of items.
C9_SameSequence == run = 3 => feed = feed1

\* C9 (amended): two runs of the same crawl over the same site give, for every
\* location, the same items of that location in the same order (so the same
\* items as a whole); for QuotesSpider, which never has two requests at once,
\* the two feeds are the same sequence.
C9_SameItemsPerPage ==
    run = 3 =>
        /\ \A l \in Loc : ItemsFrom(feed, l) = ItemsFrom(feed1, l)
        /\ pc = "run_quotes" => feed = feed1

C9_Witness ==
    /\ run = 3
    /\ pc = "run_advanced"
    /\ feed # feed1
    /\ Len(feed) >= 3

\* The outputs of AdvancedSpider.parse on page p of l: the items are the
\* quotes in page order, an author request comes right after the item of its
\* quote and only for a quote with an author link, and the pagination request
\* is the last output, there only when the page has a next link.
WellOrdered(outs, l, p) ==
    /\ SelectSeq(outs, LAMBDA o : o.kind = "item")
         = [i \in 1..Len(p.quotes) |-> ItemOut(l, i)]
    /\ \A k \in DOMAIN outs :
          /\ outs[k].callback = "parse_author" =>
                (k > 1 /\ outs[k - 1].kind = "item"
                       /\ outs[k].url = p.quotes[outs[k - 1].idx])
          /\ (outs[k].kind = "item" /\ p.quotes[outs[k].idx] # NoLink) =>
                (k < Len(outs) /\ outs[k + 1] = ReqOut(p.quotes[outs[k].idx], "parse_author"))
          /\ outs[k].callback = "parse" => (k = Len(outs) /\ outs[k].url = p.next)
    /\ p.next # NoLink => (outs # <<>> /\ outs[Len(outs)] = ReqOut(p.next, "parse"))

====
